---- MODULE Spec2Model ----
(***************************************************************************)
(* Model of src/src/shaders.rs: vertex_shader, fragment_shader and the     *)
(* nine procedural materials.                                              *)
(*                                                                         *)
(* Numbers.  f32 values of the fragment stage are fixed-point integers in  *)
(* thousandths (1.0 = 1000); products are truncated toward zero.  The      *)
(* vertex stage is modelled with extended rationals <<n, d>> (d = 0 is an  *)
(* infinity or NaN), since the perspective divide and the matrix inverse   *)
(* do not stay on a fixed-point grid.                                      *)
(***************************************************************************)
EXTENDS Integers, Sequences, FiniteSets, TLC

(* ------------------------------ bounds -------------------------------- *)

\* uniforms.time runs over 0..MaxTime
MaxTime == 2
\* the noise generator's seed runs over 0..MaxNoiseSeed
MaxNoiseSeed == 40
\* selectors 0..MaxSelector (and 255) are tried
MaxSelector == 11
\* invocations of one repeated run
MaxCalls == 3
\* vertex coordinates run over -MaxCoord..MaxCoord
MaxCoord == 1
\* workers of a frame
NumWorkers == 2

(* ------------------------- fixed-point helpers ------------------------ *)

Abs(a) == IF a < 0 THEN -a ELSE a

\* integer division truncating toward zero, b > 0
TDiv(a, b) == IF a >= 0 THEN a \div b ELSE -((-a) \div b)

\* f32 * f32 of two values in thousandths
FMul(a, b) == TDiv(a * b, 1000)

\* f32::clamp / f32::max
Clamp(v, lo, hi) == IF v < lo THEN lo ELSE IF v > hi THEN hi ELSE v

Max(a, b) == IF a >= b THEN a ELSE b

\* f32::sin on thousandths of a radian: third-order Taylor polynomial, which is
\* exact to the grid for the arguments the bounded time produces (|x| <= 1000)
Sin(x) == x - TDiv(x * x * x, 6000000)

\* `f32 as u64`: truncates toward zero, negative values saturate to 0
AsU64(v) == IF v <= 0 THEN 0 ELSE v \div 1000

(* ------------------------------ Color --------------------------------- *)
\* crate::color::Color is not among the source files; modelled from the
\* Data Model section of the specification: integer channels, lerp without
\* clamping, scaling by a float clamped to [0,255].

ColorNew(r, g, b) == <<r, g, b>>

\* Color::lerp(&self, other, t): channel-wise self + (other - self) * t,
\* t in thousandths, truncated to an integer, not clamped
ColorLerp(c, other, t) ==
    [i \in 1..3 |-> TDiv(c[i] * 1000 + (other[i] - c[i]) * t, 1000)]

\* Color * f32: channel-wise scale, then clamp to [0,255]
ColorMul(c, f) == [i \in 1..3 |-> Clamp(TDiv(c[i] * f, 1000), 0, 255)]

(* ------------------------------ noise --------------------------------- *)
\* uniforms.noise is an external generator: a deterministic scalar field
\* selected by its seed, with values in [-1,1].  The field below stands for
\* it: values on a grid of 0.05, and at every point every grid value is taken
\* for some seed.

NoiseGrid(k) == ((k % 41) - 20) * 50

\* a sample point folded to a number
NoisePoint(x, y, z) == 3 * (x % 41) + 5 * (y % 41) + 7 * (z % 41)

NoiseField(noise, point) ==
    NoiseGrid(noise.seed * (1 + (point % 40)) + point)

get_noise_2d(noise, x, y) == NoiseField(noise, NoisePoint(x, y, 0))

get_noise_3d(noise, x, y, z) == NoiseField(noise, NoisePoint(x, y, z))

(* ------------------------------ StdRng -------------------------------- *)
\* rand::rngs::StdRng is an external generator; a small congruential
\* generator stands for it.  A generator state is a number in 0..100.

\* the state of the StdRng that black_and_white builds and draws from, as the
\* stepped run leaves it; -1 before any generator was built
VARIABLE stdrng

\* faulty variant: a generator that is seeded once and then kept between calls
StdRngSeedFromU64_Kept(seed) ==
    IF stdrng < 0 THEN (seed * seed * 7 + seed * 29 + 64) % 101 ELSE stdrng

\* StdRng::seed_from_u64(seed): the state is a function of the seed alone
StdRngSeedFromU64(seed) == (seed * seed * 7 + seed * 29 + 64) % 101

\* rng.gen_range(0..=100): the value drawn and the advanced state
GenRange(state) ==
    [value |-> state, next |-> (state * 31 + 17) % 101]

(* ---------------------------- materials ------------------------------ *)
\* A fragment is [vertex_position |-> [x, y], depth, normal |-> <<x, y, z>>,
\* intensity]; uniforms is [model_matrix, view_matrix, projection_matrix,
\* viewport_matrix, time, noise |-> [seed]].

\* (noise_value1 + noise_value2) * 0.5
Average(n1, n2) == FMul(n1 + n2, 500)

\* ---- black_and_white (selector 1)
BwSeed(fragment, uniforms) ==
    FMul(FMul(uniforms.time * 1000, fragment.vertex_position.y),
         fragment.vertex_position.x)

\* faulty variant: the cast without the abs()
BwSeedU64_NoAbs(fragment, uniforms) == AsU64(BwSeed(fragment, uniforms))

BwSeedU64(fragment, uniforms) == AsU64(Abs(BwSeed(fragment, uniforms)))

BwPick(random_number) ==
    IF random_number < 50 THEN ColorNew(0, 0, 0) ELSE ColorNew(255, 255, 255)

BwColor(fragment, uniforms) ==
    LET rng           == StdRngSeedFromU64(BwSeedU64(fragment, uniforms))
        random_number == GenRange(rng).value
    IN  BwPick(random_number)

black_and_white(fragment, uniforms) ==
    ColorMul(BwColor(fragment, uniforms), fragment.intensity)

\* ---- dalmata_shader (selector 2)
DalmataNoise(fragment, uniforms) ==
    LET zoom == 100
        ox   == 0
        oy   == 0
        x    == fragment.vertex_position.x
        y    == fragment.vertex_position.y
    IN  get_noise_2d(uniforms.noise, (x + ox) * zoom, (y + oy) * zoom)

\* faulty variant: the comparison turned round
DalmataColor_Flipped(fragment, uniforms) ==
    LET noise_value == DalmataNoise(fragment, uniforms)
    IN  IF noise_value > 500 THEN ColorNew(255, 255, 255)
        ELSE ColorNew(0, 0, 0)

DalmataColor(fragment, uniforms) ==
    LET noise_value    == DalmataNoise(fragment, uniforms)
        spot_threshold == 500
        spot_color     == ColorNew(255, 255, 255)
        base_color     == ColorNew(0, 0, 0)
    IN  IF noise_value < spot_threshold THEN spot_color ELSE base_color

dalmata_shader(fragment, uniforms) ==
    ColorMul(DalmataColor(fragment, uniforms), fragment.intensity)

\* ---- cloud_shader (selector 3)
CloudNoise(fragment, uniforms) ==
    LET zoom == 100
        ox   == 100000
        oy   == 100000
        x    == fragment.vertex_position.x
        y    == fragment.vertex_position.y
        t    == FMul(uniforms.time * 1000, 500)
    IN  get_noise_2d(uniforms.noise, x * zoom + ox + t, y * zoom + oy)

CloudColor(fragment, uniforms) ==
    LET noise_value     == CloudNoise(fragment, uniforms)
        cloud_threshold == 500
        cloud_color     == ColorNew(255, 255, 255)
        sky_color       == ColorNew(30, 97, 145)
    IN  IF noise_value > cloud_threshold THEN cloud_color ELSE sky_color

cloud_shader(fragment, uniforms) ==
    ColorMul(CloudColor(fragment, uniforms), fragment.intensity)

\* ---- cellular_shader (selector 4)
CellularNoise(fragment, uniforms) ==
    LET zoom == 30
        ox   == 50000
        oy   == 50000
        x    == fragment.vertex_position.x
        y    == fragment.vertex_position.y
    IN  Abs(get_noise_2d(uniforms.noise, x * zoom + ox, y * zoom + oy))

CellularColor(fragment, uniforms) ==
    LET cell_noise_value == CellularNoise(fragment, uniforms)
        cell_color_1     == ColorNew(85, 107, 47)
        cell_color_2     == ColorNew(124, 252, 0)
        cell_color_3     == ColorNew(34, 139, 34)
        cell_color_4     == ColorNew(173, 255, 47)
    IN  IF cell_noise_value < 150 THEN cell_color_1
        ELSE IF cell_noise_value < 700 THEN cell_color_2
        ELSE IF cell_noise_value < 750 THEN cell_color_3
        ELSE cell_color_4

cellular_shader(fragment, uniforms) ==
    ColorMul(CellularColor(fragment, uniforms), fragment.intensity)

\* ---- lava_shader (selector 5 and the default)
LavaNoise(fragment, uniforms) ==
    LET px                == fragment.vertex_position.x
        py                == fragment.vertex_position.y
        pz                == fragment.depth
        base_frequency    == 200
        pulsate_amplitude == 500
        t                 == FMul(uniforms.time * 1000, 10)
        pulsate           == FMul(Sin(FMul(t, base_frequency)), pulsate_amplitude)
        zoom              == 1000
        noise_value1      == get_noise_3d(uniforms.noise,
                                 px * zoom, py * zoom, (pz + pulsate) * zoom)
        noise_value2      == get_noise_3d(uniforms.noise,
                                 (px + 1000000) * zoom, (py + 1000000) * zoom,
                                 (pz + 1000000 + pulsate) * zoom)
    IN  Average(noise_value1, noise_value2)

\* the blend factors handed to lerp, in call order
LavaFactors(fragment, uniforms) == <<LavaNoise(fragment, uniforms)>>

LavaColor(fragment, uniforms) ==
    LET bright_color == ColorNew(255, 240, 0)
        dark_color   == ColorNew(130, 20, 0)
    IN  ColorLerp(dark_color, bright_color, LavaFactors(fragment, uniforms)[1])

lava_shader(fragment, uniforms) ==
    ColorMul(LavaColor(fragment, uniforms), fragment.intensity)

\* ---- solar_shader (selector 6)
SolarNoise(fragment, uniforms) ==
    LET px                == fragment.vertex_position.x
        py                == fragment.vertex_position.y
        pz                == fragment.depth
        base_frequency    == 500
        pulsate_amplitude == 600
        t                 == FMul(uniforms.time * 1000, 20)
        pulsate           == FMul(Sin(FMul(t, base_frequency)), pulsate_amplitude)
        zoom              == 1000
        noise_value1      == get_noise_3d(uniforms.noise,
                                 px * zoom, py * zoom, (pz + pulsate) * zoom)
        noise_value2      == get_noise_3d(uniforms.noise,
                                 (px + 1000000) * zoom, (py + 1000000) * zoom,
                                 (pz + 1000000 + pulsate) * zoom)
    IN  Average(noise_value1, noise_value2)

\* faulty variant: the first factor without the abs()
SolarFactors_NoAbs(fragment, uniforms) ==
    LET noise_value == SolarNoise(fragment, uniforms)
    IN  <<noise_value, Clamp(FMul(noise_value, 500) + 500, 0, 1000)>>

SolarFactors(fragment, uniforms) ==
    LET noise_value == SolarNoise(fragment, uniforms)
    IN  <<Abs(noise_value), Clamp(FMul(noise_value, 500) + 500, 0, 1000)>>

SolarColor(fragment, uniforms) ==
    LET core_color   == ColorNew(255, 255, 200)
        mid_color    == ColorNew(255, 223, 0)
        corona_color == ColorNew(255, 140, 0)
        f            == SolarFactors(fragment, uniforms)
    IN  ColorLerp(ColorLerp(core_color, mid_color, f[1]), corona_color, f[2])

solar_shader(fragment, uniforms) ==
    ColorMul(SolarColor(fragment, uniforms), fragment.intensity)

\* ---- rock_shader (selector 7)
RockNoise(fragment, uniforms) ==
    LET px           == fragment.vertex_position.x
        py           == fragment.vertex_position.y
        pz           == fragment.depth
        t            == FMul(uniforms.time * 1000, 10)
        pulsate      == FMul(Sin(FMul(t, 500)), 100)
        zoom         == 1000
        noise_value1 == get_noise_3d(uniforms.noise,
                            (px + pulsate) * zoom, (py + pulsate) * zoom,
                            pz * zoom + t)
        noise_value2 == get_noise_3d(uniforms.noise,
                            (px + 1000000 + pulsate) * zoom,
                            (py + 1000000 + pulsate) * zoom,
                            pz * zoom + t)
    IN  Average(noise_value1, noise_value2)

\* faulty variant: >= in place of >
RockBase_Ge(fragment, uniforms) ==
    LET noise_value == RockNoise(fragment, uniforms)
    IN  IF noise_value >= 600 THEN ColorNew(245, 222, 179)
        ELSE IF noise_value >= 400 THEN ColorNew(222, 184, 135)
        ELSE IF noise_value >= 200 THEN ColorNew(210, 180, 140)
        ELSE IF noise_value >= 0 THEN ColorNew(188, 143, 143)
        ELSE IF noise_value >= -200 THEN ColorNew(205, 133, 63)
        ELSE IF noise_value >= -400 THEN ColorNew(139, 69, 19)
        ELSE ColorNew(160, 82, 45)

RockBase(fragment, uniforms) ==
    LET color_1           == ColorNew(245, 222, 179)
        color_2           == ColorNew(222, 184, 135)
        color_3           == ColorNew(210, 180, 140)
        color_4           == ColorNew(188, 143, 143)
        color_5           == ColorNew(205, 133, 63)
        color_6           == ColorNew(139, 69, 19)
        color_7           == ColorNew(160, 82, 45)
        noise_value       == RockNoise(fragment, uniforms)
        stone_threshold_1 == -400
        stone_threshold_2 == -200
        stone_threshold_3 == 0
        stone_threshold_4 == 200
        stone_threshold_5 == 400
        stone_threshold_6 == 600
    IN  IF noise_value > stone_threshold_6 THEN color_1
        ELSE IF noise_value > stone_threshold_5 THEN color_2
        ELSE IF noise_value > stone_threshold_4 THEN color_3
        ELSE IF noise_value > stone_threshold_3 THEN color_4
        ELSE IF noise_value > stone_threshold_2 THEN color_5
        ELSE IF noise_value > stone_threshold_1 THEN color_6
        ELSE color_7

\* 0.6 + 0.4 * dot(normalize(1, 1, 0.5), fragment.normal).max(0.0);
\* normalize(1, 1, 0.5) = (2/3, 2/3, 1/3)
RockRelief(fragment) ==
    LET n                 == fragment.normal
        diffuse_intensity == Max(TDiv(2 * n[1] + 2 * n[2] + n[3], 3), 0)
    IN  600 + FMul(400, diffuse_intensity)

RockColor(fragment, uniforms) ==
    ColorMul(RockBase(fragment, uniforms), RockRelief(fragment))

rock_shader(fragment, uniforms) ==
    ColorMul(RockColor(fragment, uniforms), fragment.intensity)

\* (1.0 - position.y.abs()).clamp(0.0, 1.0), shared by rainforest and clay
Gradient(fragment) == Clamp(1000 - Abs(fragment.vertex_position.y), 0, 1000)

\* ---- rainforest_shader (selector 8)
RainforestNoise(fragment, uniforms) ==
    LET px           == fragment.vertex_position.x
        py           == fragment.vertex_position.y
        pz           == fragment.depth
        t            == FMul(uniforms.time * 1000, 10)
        pulsate      == FMul(Sin(FMul(t, 300)), 500)
        zoom         == 200
        noise_value1 == get_noise_3d(uniforms.noise,
                            (px + pulsate) * zoom, (py + pulsate) * zoom,
                            pz * zoom + t)
        noise_value2 == get_noise_3d(uniforms.noise,
                            (px - pulsate) * zoom, (py - pulsate) * zoom,
                            pz * zoom - t)
    IN  Average(noise_value1, noise_value2)

RainforestFactors(fragment, uniforms) ==
    <<Abs(RainforestNoise(fragment, uniforms)), 1000 - Gradient(fragment)>>

RainforestColor(fragment, uniforms) ==
    LET cloud_color == ColorNew(255, 255, 255)
        fog_color   == ColorNew(120, 120, 120)
        f           == RainforestFactors(fragment, uniforms)
    IN  ColorLerp(ColorLerp(cloud_color, fog_color, f[1]), fog_color, f[2])

rainforest_shader(fragment, uniforms) ==
    ColorMul(RainforestColor(fragment, uniforms), fragment.intensity)

\* ---- clay_shader (selector 9)
ClayNoise(fragment, uniforms) ==
    LET px           == fragment.vertex_position.x
        py           == fragment.vertex_position.y
        pz           == fragment.depth
        t            == FMul(uniforms.time * 1000, 20)
        pulsate      == FMul(Sin(FMul(t, 300)), 300)
        zoom         == 500
        noise_value1 == get_noise_3d(uniforms.noise,
                            (px + pulsate) * zoom, (py + pulsate) * zoom,
                            pz * zoom + t)
        noise_value2 == get_noise_3d(uniforms.noise,
                            (px - pulsate) * zoom, (py - pulsate) * zoom,
                            pz * zoom - t)
    IN  Average(noise_value1, noise_value2)

ClayBase(fragment, uniforms) ==
    LET color_1     == ColorNew(173, 216, 230)
        color_2     == ColorNew(135, 206, 250)
        color_3     == ColorNew(70, 130, 180)
        color_4     == ColorNew(30, 144, 255)
        color_5     == ColorNew(0, 105, 148)
        noise_value == ClayNoise(fragment, uniforms)
        threshold_1 == -200
        threshold_2 == 0
        threshold_3 == 200
        threshold_4 == 400
    IN  IF noise_value > threshold_4 THEN color_1
        ELSE IF noise_value > threshold_3 THEN color_2
        ELSE IF noise_value > threshold_2 THEN color_3
        ELSE IF noise_value > threshold_1 THEN color_4
        ELSE color_5

ClayColor(fragment, uniforms) ==
    LET color_5 == ColorNew(0, 105, 148)
    IN  ColorLerp(ClayBase(fragment, uniforms), color_5,
                  1000 - Gradient(fragment))

\* faulty variant: the intensity applied before the fade instead of last
clay_shader_EarlyIntensity(fragment, uniforms) ==
    ColorLerp(ColorMul(ClayBase(fragment, uniforms), fragment.intensity),
              ColorNew(0, 105, 148), 1000 - Gradient(fragment))

clay_shader(fragment, uniforms) ==
    ColorMul(ClayColor(fragment, uniforms), fragment.intensity)

(* --------------------------- fragment_shader -------------------------- *)

\* faulty variant: the default arm falls to the first material instead of lava
fragment_shader_DefaultFirst(fragment, uniforms, current_shader) ==
    CASE current_shader = 2 -> dalmata_shader(fragment, uniforms)
      [] current_shader = 3 -> cloud_shader(fragment, uniforms)
      [] current_shader = 4 -> cellular_shader(fragment, uniforms)
      [] current_shader = 5 -> lava_shader(fragment, uniforms)
      [] current_shader = 6 -> solar_shader(fragment, uniforms)
      [] current_shader = 7 -> rock_shader(fragment, uniforms)
      [] current_shader = 8 -> rainforest_shader(fragment, uniforms)
      [] current_shader = 9 -> clay_shader(fragment, uniforms)
      [] OTHER -> black_and_white(fragment, uniforms)

fragment_shader(fragment, uniforms, current_shader) ==
    CASE current_shader = 1 -> black_and_white(fragment, uniforms)
      [] current_shader = 2 -> dalmata_shader(fragment, uniforms)
      [] current_shader = 3 -> cloud_shader(fragment, uniforms)
      [] current_shader = 4 -> cellular_shader(fragment, uniforms)
      [] current_shader = 5 -> lava_shader(fragment, uniforms)
      [] current_shader = 6 -> solar_shader(fragment, uniforms)
      [] current_shader = 7 -> rock_shader(fragment, uniforms)
      [] current_shader = 8 -> rainforest_shader(fragment, uniforms)
      [] current_shader = 9 -> clay_shader(fragment, uniforms)
      [] OTHER -> lava_shader(fragment, uniforms)

(* --------------------- extended rational arithmetic ------------------- *)
\* An f32 of the vertex stage is <<n, d>> in lowest terms with d >= 0;
\* <<1, 0>> and <<-1, 0>> are the infinities and <<0, 0>> is NaN.

Sign(n) == IF n > 0 THEN 1 ELSE IF n < 0 THEN -1 ELSE 0

RECURSIVE GCD(_, _)
GCD(a, b) == IF b = 0 THEN a ELSE GCD(b, a % b)

RNorm(n, d) ==
    IF d = 0 THEN <<Sign(n), 0>>
    ELSE LET g == GCD(Abs(n), Abs(d))
         IN  <<(Sign(d) * n) \div g, Abs(d) \div g>>

R(n) == <<n, 1>>

RAdd(a, b) ==
    IF a[2] = 0 /\ b[2] = 0
    THEN IF a = b THEN a ELSE <<0, 0>>
    ELSE RNorm(a[1] * b[2] + b[1] * a[2], a[2] * b[2])

RNeg(a) == <<-a[1], a[2]>>

RSub(a, b) == RAdd(a, RNeg(b))

RMul(a, b) == RNorm(a[1] * b[1], a[2] * b[2])

RDiv(a, b) == RNorm(a[1] * b[2], a[2] * b[1])

\* row * column of length n
RECURSIVE RDot(_, _, _)
RDot(row, col, n) ==
    IF n = 0 THEN R(0)
    ELSE RAdd(RDot(row, col, n - 1), RMul(row[n], col[n]))

\* nalgebra matrix * matrix and matrix * vector, square of size n
MatMul(a, b, n) ==
    [i \in 1..n |-> [j \in 1..n |-> RDot(a[i], [k \in 1..n |-> b[k][j]], n)]]

MatVec(a, v, n) == [i \in 1..n |-> RDot(a[i], v, n)]

Identity(n) == [i \in 1..n |-> [j \in 1..n |-> IF i = j THEN R(1) ELSE R(0)]]

\* glm::mat4_to_mat3: the upper-left 3x3 block
mat4_to_mat3(m) == [i \in 1..3 |-> [j \in 1..3 |-> m[i][j]]]

Transpose(m) == [i \in 1..3 |-> [j \in 1..3 |-> m[j][i]]]

\* nalgebra Matrix::try_inverse for a 3x3 matrix: None when the determinant
\* is zero (some = FALSE), else the cofactor formula divided by the determinant
TryInverse(m) ==
    LET m11 == m[1][1]  m12 == m[1][2]  m13 == m[1][3]
        m21 == m[2][1]  m22 == m[2][2]  m23 == m[2][3]
        m31 == m[3][1]  m32 == m[3][2]  m33 == m[3][3]
        minor_m12_m23 == RSub(RMul(m22, m33), RMul(m32, m23))
        minor_m11_m23 == RSub(RMul(m21, m33), RMul(m31, m23))
        minor_m11_m22 == RSub(RMul(m21, m32), RMul(m31, m22))
        determinant   == RAdd(RSub(RMul(m11, minor_m12_m23),
                                   RMul(m12, minor_m11_m23)),
                              RMul(m13, minor_m11_m22))
    IN  IF determinant = R(0) THEN [some |-> FALSE, value |-> m]
        ELSE [some  |-> TRUE,
              value |->
              << << RDiv(minor_m12_m23, determinant),
                    RDiv(RSub(RMul(m13, m32), RMul(m33, m12)), determinant),
                    RDiv(RSub(RMul(m12, m23), RMul(m22, m13)), determinant) >>,
                 << RDiv(RNeg(minor_m11_m23), determinant),
                    RDiv(RSub(RMul(m11, m33), RMul(m31, m13)), determinant),
                    RDiv(RSub(RMul(m13, m21), RMul(m23, m11)), determinant) >>,
                 << RDiv(minor_m11_m22, determinant),
                    RDiv(RSub(RMul(m12, m31), RMul(m32, m11)), determinant),
                    RDiv(RSub(RMul(m11, m22), RMul(m21, m12)), determinant) >> >>]

\* faulty variant: the inverse taken without the transpose
NormalMatrix_NoTranspose(uniforms) ==
    LET inverse == TryInverse(mat4_to_mat3(uniforms.model_matrix))
    IN  IF inverse.some THEN inverse.value ELSE Identity(3)

\* model_mat3.transpose().try_inverse().unwrap_or(Mat3::identity())
NormalMatrix(uniforms) ==
    LET model_mat3 == mat4_to_mat3(uniforms.model_matrix)
        inverse    == TryInverse(Transpose(model_mat3))
    IN  IF inverse.some THEN inverse.value ELSE Identity(3)

(* ---------------------------- vertex_shader --------------------------- *)

\* faulty variant: the divide taken by z instead of w
ScreenPosition_DivideByZ(vertex, uniforms) ==
    LET position    == <<vertex.position[1], vertex.position[2],
                         vertex.position[3], R(1)>>
        transformed == MatVec(
                           MatMul(MatMul(uniforms.projection_matrix,
                                         uniforms.view_matrix, 4),
                                  uniforms.model_matrix, 4),
                           position, 4)
        w           == transformed[3]
    IN  MatVec(uniforms.viewport_matrix,
               <<RDiv(transformed[1], w), RDiv(transformed[2], w),
                 RDiv(transformed[3], w), R(1)>>, 4)

\* projection * view * model * position, then the perspective divide and the
\* viewport transform
ScreenPosition(vertex, uniforms) ==
    LET position    == <<vertex.position[1], vertex.position[2],
                         vertex.position[3], R(1)>>
        transformed == MatVec(
                           MatMul(MatMul(uniforms.projection_matrix,
                                         uniforms.view_matrix, 4),
                                  uniforms.model_matrix, 4),
                           position, 4)
        w           == transformed[4]
        transformed_position ==
            <<RDiv(transformed[1], w), RDiv(transformed[2], w),
              RDiv(transformed[3], w), R(1)>>
    IN  MatVec(uniforms.viewport_matrix, transformed_position, 4)

vertex_shader(vertex, uniforms) ==
    LET screen_position    == ScreenPosition(vertex, uniforms)
        transformed_normal == MatVec(NormalMatrix(uniforms), vertex.normal, 3)
    IN  [position             |-> vertex.position,
         normal               |-> vertex.normal,
         tex_coords           |-> vertex.tex_coords,
         color                |-> vertex.color,
         transformed_position |-> <<screen_position[1], screen_position[2],
                                    screen_position[3]>>,
         transformed_normal   |-> transformed_normal]

(* ------------------------------- state -------------------------------- *)

VARIABLES
    uniforms,        \* the per-frame bundle shared by every call
    current_shader,  \* the selector the driver has chosen
    fragment,        \* the fragment handed to fragment_shader
    out,             \* the Color fragment_shader returned
    pc,              \* where the shading (or transforming) loop stands
    outs,            \* the colors returned so far by the repeated run
    vertex,          \* the vertex handed to vertex_shader
    vout,            \* the Vertex vertex_shader returned
    fragments,       \* the frame's fragments, shared by the workers
    vertices,        \* the frame's vertices, shared by the workers
    colors,          \* per fragment: the color a worker returned
    transformed,     \* per vertex: the Vertex a worker returned
    holding,         \* per worker: the item it is processing
    finished,        \* the items whose result has been written
    snapshot         \* the frame as the driver submitted it

vars == <<uniforms, current_shader, fragment, out, pc, stdrng, outs, vertex,
          vout, fragments, vertices, colors, transformed, holding, finished,
          snapshot>>

shadeVars  == <<stdrng, outs>>
vertexVars == <<vertex, vout>>
frameVars  == <<fragments, vertices, colors, transformed, holding, finished,
               snapshot>>

(* ------------------------------- inputs ------------------------------- *)

\* u8::MAX, the largest selector
U8Max == 255

Selectors == (0..MaxSelector) \cup {U8Max}

Intensities == {0, 250, 500, 1000}

Positions == { [x |-> 0, y |-> 0], [x |-> 500, y |-> 500],
               [x |-> 1500, y |-> 1500], [x |-> -1500, y |-> 1500],
               [x |-> 1500, y |-> -1500], [x |-> 1000, y |-> 1500],
               [x |-> 500, y |-> -500] }

\* depth and interpolated normal of a surface sample
Surfaces == { [depth |-> 0, normal |-> <<0, 0, 1000>>],
              [depth |-> 500, normal |-> <<0, 0, -1000>>] }

FragmentPool ==
    { [vertex_position |-> p, depth |-> s.depth, normal |-> s.normal,
       intensity |-> i] : p \in Positions, s \in Surfaces, i \in Intensities }

NoColor == <<>>

Bundle(model, view, projection, viewport, time, seed) ==
    [model_matrix      |-> model,
     view_matrix       |-> view,
     projection_matrix |-> projection,
     viewport_matrix   |-> viewport,
     time              |-> time,
     noise             |-> [seed |-> seed]]

\* faulty variant: a call that advances the shared time
UniformsAfterCall_Tick(u) == [u EXCEPT !.time = @ + 1]

\* fragment_shader and vertex_shader borrow the bundle and the fragment
\* immutably: a call leaves both as they were
UniformsAfterCall(u) == u

FragmentAfterCall(f) == f

(* ------------------------- the shading loop --------------------------- *)

IdleFrame ==
    /\ fragments = <<>> /\ vertices = <<>> /\ colors = <<>>
    /\ transformed = <<>> /\ holding = <<>> /\ finished = {}
    /\ snapshot = <<>>

IdleVertex == vertex = <<>> /\ vout = <<>>

Init ==
    /\ \E seed \in 0..MaxNoiseSeed :
           uniforms = Bundle(Identity(4), Identity(4), Identity(4),
                             Identity(4), 0, seed)
    /\ current_shader \in Selectors
    /\ fragment \in FragmentPool
    /\ out = NoColor
    /\ pc = "ready"
    /\ stdrng = -1
    /\ outs = <<>>
    /\ IdleVertex
    /\ IdleFrame

\* the driver selects another material; the color of the previous call has
\* gone to the framebuffer
SelectShader ==
    /\ pc = "shaded"
    /\ \E s \in Selectors : current_shader' = s
    /\ out' = NoColor
    /\ pc' = "ready"
    /\ UNCHANGED <<uniforms, fragment, shadeVars, vertexVars, frameVars>>

\* the driver advances the time
AdvanceTime ==
    /\ pc = "shaded"
    /\ uniforms.time < MaxTime
    /\ uniforms' = [uniforms EXCEPT !.time = @ + 1]
    /\ out' = NoColor
    /\ pc' = "ready"
    /\ UNCHANGED <<current_shader, fragment, shadeVars, vertexVars, frameVars>>

\* one call of fragment_shader
Shade ==
    /\ pc = "ready"
    /\ out' = fragment_shader(fragment, uniforms, current_shader)
    /\ uniforms' = UniformsAfterCall(uniforms)
    /\ fragment' = FragmentAfterCall(fragment)
    /\ pc' = "shaded"
    /\ UNCHANGED <<current_shader, shadeVars, vertexVars, frameVars>>

Next == SelectShader \/ AdvanceTime \/ Shade

Spec == Init /\ [][Next]_vars

(* ------------------------ properties: shading -------------------------- *)

Shaded == pc = "shaded"

Black == <<0, 0, 0>>
White == <<255, 255, 255>>

\* C1: fragment_shader is total: selectors 1..9 return the color of the
\* material of that number, every other selector returns what selector 5
\* (lava) returns for the same fragment and bundle.
C1_SelectorTotality ==
    Shaded =>
        /\ current_shader = 1 => out = black_and_white(fragment, uniforms)
        /\ current_shader = 2 => out = dalmata_shader(fragment, uniforms)
        /\ current_shader = 3 => out = cloud_shader(fragment, uniforms)
        /\ current_shader = 4 => out = cellular_shader(fragment, uniforms)
        /\ current_shader = 5 => out = lava_shader(fragment, uniforms)
        /\ current_shader = 6 => out = solar_shader(fragment, uniforms)
        /\ current_shader = 7 => out = rock_shader(fragment, uniforms)
        /\ current_shader = 8 => out = rainforest_shader(fragment, uniforms)
        /\ current_shader = 9 => out = clay_shader(fragment, uniforms)
        /\ current_shader \notin 1..9 =>
               out = fragment_shader(fragment, uniforms, 5)
        /\ out \in [1..3 -> 0..255]

\* an unrecognised selector has produced a lava color that the first
\* material would not have produced
C1_Witness ==
    /\ Shaded
    /\ current_shader = U8Max
    /\ out # Black
    /\ out # black_and_white(fragment, uniforms)

\* The palette color of the range a value falls in, the ranges listed from
\* the lowest up and cut at `boundaries`.  Strict: a value on a boundary
\* belongs to the range below it.  Weak: it belongs to the range above.
RangeBelow(palette, boundaries, v) ==
    palette[1 + Cardinality({b \in boundaries : v > b})]

RangeAbove(palette, boundaries, v) ==
    palette[1 + Cardinality({b \in boundaries : v >= b})]

DalmataPalette == <<White, Black>>
DalmataBoundaries == {500}
CloudPalette == <<ColorNew(30, 97, 145), White>>
CloudBoundaries == {500}
CellularPalette == <<ColorNew(85, 107, 47), ColorNew(124, 252, 0),
                     ColorNew(34, 139, 34), ColorNew(173, 255, 47)>>
CellularBoundaries == {150, 700, 750}
RockPalette == <<ColorNew(160, 82, 45), ColorNew(139, 69, 19),
                 ColorNew(205, 133, 63), ColorNew(188, 143, 143),
                 ColorNew(210, 180, 140), ColorNew(222, 184, 135),
                 ColorNew(245, 222, 179)>>
RockBoundaries == {-400, -200, 0, 200, 400, 600}
ClayPalette == <<ColorNew(0, 105, 148), ColorNew(30, 144, 255),
                 ColorNew(70, 130, 180), ColorNew(135, 206, 250),
                 ColorNew(173, 216, 230)>>
ClayBoundaries == {-200, 0, 200, 400}

\* the color each threshold material returns once its palette color is known
RockFinish(c) ==
    ColorMul(ColorMul(c, RockRelief(fragment)), fragment.intensity)

ClayFinish(c) ==
    ColorMul(ColorLerp(c, ClayPalette[1], 1000 - Gradient(fragment)),
             fragment.intensity)

PlainFinish(c) == ColorMul(c, fragment.intensity)

StrictThresholds ==
    /\ current_shader = 3 =>
           out = PlainFinish(RangeBelow(CloudPalette, CloudBoundaries,
                                        CloudNoise(fragment, uniforms)))
    /\ current_shader = 7 =>
           out = RockFinish(RangeBelow(RockPalette, RockBoundaries,
                                       RockNoise(fragment, uniforms)))
    /\ current_shader = 9 =>
           out = ClayFinish(RangeBelow(ClayPalette, ClayBoundaries,
                                       ClayNoise(fragment, uniforms)))

\* C2 (as amended): cloud, rock and clay compare `value > boundary`, so a
\* value on a boundary gets the color of the range below it; dappled and
\* cellular compare `value < boundary`, so a value on a boundary gets the
\* color of the range above it.
C2_ThresholdRanges ==
    Shaded =>
        /\ StrictThresholds
        /\ current_shader = 2 =>
               out = PlainFinish(RangeAbove(DalmataPalette, DalmataBoundaries,
                                            DalmataNoise(fragment, uniforms)))
        /\ current_shader = 4 =>
               out = PlainFinish(RangeAbove(CellularPalette, CellularBoundaries,
                                            CellularNoise(fragment, uniforms)))

\* C2 as claimed: all five threshold materials give a value on a boundary the
\* color of the range below.
C2_Original ==
    Shaded =>
        /\ StrictThresholds
        /\ current_shader = 2 =>
               out = PlainFinish(RangeBelow(DalmataPalette, DalmataBoundaries,
                                            DalmataNoise(fragment, uniforms)))
        /\ current_shader = 4 =>
               out = PlainFinish(RangeBelow(CellularPalette, CellularBoundaries,
                                            CellularNoise(fragment, uniforms)))

\* rock has been shaded at full intensity with its noise on the top boundary
C2_Witness ==
    /\ Shaded
    /\ current_shader = 7
    /\ RockNoise(fragment, uniforms) = 600
    /\ fragment.intensity = 1000
    /\ out = ColorMul(RockPalette[6], RockRelief(fragment))

\* the color a material has computed when only the final scaling by
\* fragment.intensity is left to do
Unscaled(f, u, selector) ==
    CASE selector = 1 -> BwColor(f, u)
      [] selector = 2 -> DalmataColor(f, u)
      [] selector = 3 -> CloudColor(f, u)
      [] selector = 4 -> CellularColor(f, u)
      [] selector = 6 -> SolarColor(f, u)
      [] selector = 7 -> RockColor(f, u)
      [] selector = 8 -> RainforestColor(f, u)
      [] selector = 9 -> ClayColor(f, u)
      [] OTHER -> LavaColor(f, u)

AtIntensity(f, i) == [f EXCEPT !.intensity = i]

ClampChannels(c) == [k \in 1..3 |-> Clamp(c[k], 0, 255)]

\* C3 (as amended): the intensity enters only through the final channel-wise
\* scaling: intensity 0.0 gives (0,0,0), intensity 1.0 gives the unscaled
\* color clamped to [0,255] per channel, and any intensity gives the
\* intensity-1.0 result scaled channel by channel.
C3_IntensityScaling ==
    Shaded =>
        LET unscaled == Unscaled(fragment, uniforms, current_shader)
            unit     == fragment_shader(AtIntensity(fragment, 1000), uniforms,
                                        current_shader)
        IN  /\ \A i \in Intensities :
                   Unscaled(AtIntensity(fragment, i), uniforms, current_shader)
                       = unscaled
            /\ out = ColorMul(unscaled, fragment.intensity)
            /\ out = ColorMul(unit, fragment.intensity)
            /\ unit = ClampChannels(unscaled)
            /\ fragment.intensity = 0 => out = Black
            /\ fragment.intensity = 1000 => out = unit

\* C3 as claimed: intensity 1.0 returns the material's unscaled color.
C3_Original ==
    (Shaded /\ fragment.intensity = 1000) =>
        out = Unscaled(fragment, uniforms, current_shader)

\* clay has been shaded at an intermediate intensity, half way into its fade
C3_Witness ==
    /\ Shaded
    /\ current_shader = 9
    /\ fragment.intensity = 500
    /\ Gradient(fragment) = 500
    /\ out # Black
    /\ out # ClayColor(fragment, uniforms)

\* C4: the dappled material returns white scaled by the intensity when the
\* noise sample is below 0.5 and black otherwise; noise 0.3 at intensity 1.0
\* gives (255,255,255), noise 0.8 at intensity 0.5 gives (0,0,0).
C4_Dappled ==
    (Shaded /\ current_shader = 2) =>
        LET noise_value == DalmataNoise(fragment, uniforms)
        IN  /\ noise_value < 500 => out = ColorMul(White, fragment.intensity)
            /\ noise_value >= 500 => out = Black
            /\ (noise_value = 300 /\ fragment.intensity = 1000) => out = White
            /\ (noise_value = 800 /\ fragment.intensity = 500) => out = Black

\* the first scenario of the claim has been shaded
C4_Witness ==
    /\ Shaded
    /\ current_shader = 2
    /\ DalmataNoise(fragment, uniforms) = 300
    /\ fragment.intensity = 1000
    /\ out = White

InUnit(factors) == \A k \in DOMAIN factors : factors[k] >= 0 /\ factors[k] <= 1000

InByte(c) == \A k \in 1..3 : c[k] >= 0 /\ c[k] <= 255

TruncatedMagnitude(f, time) ==
    (time * Abs(f.vertex_position.x) * Abs(f.vertex_position.y)) \div 1000000

Mirror(f, sx, sy) ==
    [f EXCEPT !.vertex_position = [x |-> sx * f.vertex_position.x,
                                   y |-> sy * f.vertex_position.y]]

\* C10: the monochrome choice depends on time and position only through the
\* integer part of |time * x * y|: inputs with the same integer part get the
\* same choice, those below 1 get the choice of seed 0, and mirroring x or y
\* changes nothing.
C10_MonochromeSeed ==
    (Shaded /\ current_shader = 1) =>
        LET m      == TruncatedMagnitude(fragment, uniforms.time)
            choice == BwPick(GenRange(StdRngSeedFromU64(m)).value)
        IN  /\ out = ColorMul(choice, fragment.intensity)
            /\ \A f \in FragmentPool, t \in 0..MaxTime :
                   TruncatedMagnitude(f, t) = m =>
                       BwColor(f, [uniforms EXCEPT !.time = t]) = choice
            /\ m = 0 =>
                   out = ColorMul(BwPick(GenRange(StdRngSeedFromU64(0)).value),
                                  fragment.intensity)
            /\ \A sx, sy \in {-1, 1} :
                   black_and_white(Mirror(fragment, sx, sy), uniforms) = out

\* a fragment with negative x and a product of magnitude 2 or more has been
\* shaded, and its choice is not the choice of seed 0
C10_Witness ==
    /\ Shaded
    /\ current_shader = 1
    /\ fragment.vertex_position.x < 0
    /\ TruncatedMagnitude(fragment, uniforms.time) >= 2
    /\ fragment.intensity = 1000
    /\ out # BwPick(GenRange(StdRngSeedFromU64(0)).value)


(* ------------------------- the repeated run --------------------------- *)
\* fragment_shader called again and again with one fragment, bundle and
\* selector.  black_and_white is taken in its two steps, building the
\* generator and drawing from it, so that what the generator holds between
\* calls is part of the state.

RepeatPool ==
    { f \in FragmentPool : f.intensity \in {500, 1000} /\ f.depth = 0 }

InitRepeat ==
    /\ \E seed \in 0..MaxNoiseSeed, time \in 0..MaxTime :
           uniforms = Bundle(Identity(4), Identity(4), Identity(4),
                             Identity(4), time, seed)
    /\ current_shader \in Selectors
    /\ fragment \in RepeatPool
    /\ out = NoColor
    /\ pc = "idle"
    /\ stdrng = -1
    /\ outs = <<>>
    /\ IdleVertex
    /\ IdleFrame

\* a call of any material but the first
Call ==
    /\ pc = "idle"
    /\ Len(outs) < MaxCalls
    /\ current_shader # 1
    /\ out' = fragment_shader(fragment, uniforms, current_shader)
    /\ uniforms' = UniformsAfterCall(uniforms)
    /\ fragment' = FragmentAfterCall(fragment)
    /\ pc' = "returned"
    /\ UNCHANGED <<current_shader, shadeVars, vertexVars, frameVars>>

\* black_and_white: StdRng::seed_from_u64(seed.abs() as u64)
SeedGenerator ==
    /\ pc = "idle"
    /\ Len(outs) < MaxCalls
    /\ current_shader = 1
    /\ stdrng' = StdRngSeedFromU64(BwSeedU64(fragment, uniforms))
    /\ pc' = "seeded"
    /\ UNCHANGED <<uniforms, current_shader, fragment, out, outs, vertexVars,
                   frameVars>>

\* black_and_white: rng.gen_range(0..=100), the choice and the scaling
DrawNumber ==
    /\ pc = "seeded"
    /\ LET drawn == GenRange(stdrng)
       IN  /\ stdrng' = drawn.next
           /\ out' = ColorMul(BwPick(drawn.value), fragment.intensity)
    /\ uniforms' = UniformsAfterCall(uniforms)
    /\ fragment' = FragmentAfterCall(fragment)
    /\ pc' = "returned"
    /\ UNCHANGED <<current_shader, outs, vertexVars, frameVars>>

\* the caller records the color
Return ==
    /\ pc = "returned"
    /\ outs' = Append(outs, out)
    /\ out' = NoColor
    /\ pc' = "idle"
    /\ UNCHANGED <<uniforms, current_shader, fragment, stdrng, vertexVars,
                   frameVars>>

NextRepeat == Call \/ SeedGenerator \/ DrawNumber \/ Return

SpecRepeat == InitRepeat /\ [][NextRepeat]_vars

\* C5: repeated calls of fragment_shader with the same fragment, bundle and
\* selector return the same color, for the monochrome material too: its
\* generator is seeded afresh on every call.
C5_Deterministic ==
    /\ \A i, j \in DOMAIN outs : outs[i] = outs[j]
    /\ \A i \in DOMAIN outs :
           outs[i] = fragment_shader(fragment, uniforms, current_shader)
    /\ pc = "seeded" =>
           stdrng = StdRngSeedFromU64(TruncatedMagnitude(fragment, uniforms.time))

\* the monochrome material has returned black twice, although the generator
\* the first call left behind would have drawn white next
C5_Witness ==
    /\ current_shader = 1
    /\ Len(outs) >= 2
    /\ fragment.intensity = 1000
    /\ outs[1] = Black
    /\ outs[2] = Black
    /\ BwPick(GenRange(stdrng).value) = White

(* ----------------------- the transforming loop ------------------------ *)

\* a 4x4 matrix of whole numbers
Mat4(rows) == [i \in 1..4 |-> [j \in 1..4 |-> R(rows[i][j])]]

ModelMatrices ==
    { Identity(4),
      \* scale by (2,1,1), translate by (1,0,0)
      Mat4(<< <<2, 0, 0, 1>>, <<0, 1, 0, 0>>, <<0, 0, 1, 0>>, <<0, 0, 0, 1>> >>),
      \* shear
      Mat4(<< <<1, 1, 0, 0>>, <<0, 1, 0, 0>>, <<0, 2, 1, 0>>, <<0, 0, 0, 1>> >>),
      \* flattened along z: singular
      Mat4(<< <<1, 0, 0, 0>>, <<0, 1, 0, 0>>, <<0, 0, 0, 0>>, <<0, 0, 0, 1>> >>),
      \* two equal rows: singular
      Mat4(<< <<1, 2, 0, 0>>, <<1, 2, 0, 0>>, <<0, 0, 1, 0>>, <<0, 0, 0, 1>> >>) }

ViewMatrices ==
    { Identity(4),
      Mat4(<< <<1, 0, 0, 0>>, <<0, 1, 0, 0>>, <<0, 0, 1, -2>>, <<0, 0, 0, 1>> >>) }

ProjectionMatrices ==
    { Identity(4),
      \* w = 3 - z: a perspective divide that is zero only at z = 3
      Mat4(<< <<1, 0, 0, 0>>, <<0, 1, 0, 0>>, <<0, 0, 1, 0>>, <<0, 0, -1, 3>> >>),
      \* w = z: the divide is zero for a vertex at z = 0
      Mat4(<< <<1, 0, 0, 0>>, <<0, 1, 0, 0>>, <<0, 0, 1, 0>>, <<0, 0, 1, 0>> >>) }

ViewportMatrices ==
    { Identity(4),
      Mat4(<< <<2, 0, 0, 2>>, <<0, 2, 0, 2>>, <<0, 0, 1, 0>>, <<0, 0, 0, 1>> >>) }

Coords == (-MaxCoord)..MaxCoord

VertexPool ==
    { [position             |-> <<R(x), R(y), R(z)>>,
       normal               |-> n,
       tex_coords           |-> <<R(0), R(1)>>,
       color                |-> ColorNew(255, 140, 0),
       transformed_position |-> <<R(0), R(0), R(0)>>,
       transformed_normal   |-> <<R(0), R(0), R(0)>>] :
      x \in Coords, y \in Coords, z \in Coords,
      n \in { <<R(0), R(0), R(1)>>, <<R(1), R(2), R(2)>> } }

InitVertex ==
    /\ \E model \in ModelMatrices :
           uniforms = Bundle(model, Identity(4), Identity(4), Identity(4), 0, 0)
    /\ current_shader = 5
    /\ fragment = [vertex_position |-> [x |-> 0, y |-> 0], depth |-> 0,
                   normal |-> <<0, 0, 1000>>, intensity |-> 1000]
    /\ out = NoColor
    /\ pc = "ready"
    /\ stdrng = -1
    /\ outs = <<>>
    /\ vertex \in VertexPool
    /\ vout = vertex
    /\ IdleFrame

\* the driver moves the camera or resizes the window before the next frame
SetCamera ==
    /\ pc = "transformed"
    /\ \E view \in ViewMatrices, projection \in ProjectionMatrices,
          viewport \in ViewportMatrices :
           uniforms' = [uniforms EXCEPT !.view_matrix = view,
                                        !.projection_matrix = projection,
                                        !.viewport_matrix = viewport]
    /\ vout' = vertex
    /\ pc' = "ready"
    /\ UNCHANGED <<current_shader, fragment, out, shadeVars, vertex, frameVars>>

\* one call of vertex_shader
Transform ==
    /\ pc = "ready"
    /\ vout' = vertex_shader(vertex, uniforms)
    /\ uniforms' = UniformsAfterCall(uniforms)
    /\ pc' = "transformed"
    /\ UNCHANGED <<current_shader, fragment, out, shadeVars, vertex,
                   frameVars>>

NextVertex == SetCamera \/ Transform

SpecVertex == InitVertex /\ [][NextVertex]_vars

Transformed == pc = "transformed"

\* determinant of a 3x3 matrix by the rule of Sarrus
Det3(m) ==
    RSub(RAdd(RAdd(RMul(RMul(m[1][1], m[2][2]), m[3][3]),
                   RMul(RMul(m[1][2], m[2][3]), m[3][1])),
              RMul(RMul(m[1][3], m[2][1]), m[3][2])),
         RAdd(RAdd(RMul(RMul(m[1][3], m[2][2]), m[3][1]),
                   RMul(RMul(m[1][2], m[2][1]), m[3][3])),
              RMul(RMul(m[1][1], m[2][3]), m[3][2])))

\* C6: with a singular 3x3 model block vertex_shader returns the input normal
\* as transformed_normal; with an invertible block transformed_normal is the
\* inverse of the block's transpose applied to the input normal, that is the
\* one vector the transpose maps back to the normal, not renormalized.
C6_NormalFallback ==
    Transformed =>
        LET block == mat4_to_mat3(uniforms.model_matrix)
        IN  /\ Det3(block) = R(0) => vout.transformed_normal = vertex.normal
            /\ Det3(block) # R(0) =>
                   MatVec(Transpose(block), vout.transformed_normal, 3)
                       = vertex.normal

\* a vertex has been transformed under a singular model matrix that is not
\* the identity on its normal
C6_Witness ==
    /\ Transformed
    /\ Det3(mat4_to_mat3(uniforms.model_matrix)) = R(0)
    /\ vertex.normal = <<R(1), R(2), R(2)>>
    /\ MatVec(mat4_to_mat3(uniforms.model_matrix), vertex.normal, 3)
           # vertex.normal
    /\ vout.transformed_normal = vertex.normal

AllIdentity ==
    /\ uniforms.model_matrix = Identity(4)
    /\ uniforms.view_matrix = Identity(4)
    /\ uniforms.projection_matrix = Identity(4)
    /\ uniforms.viewport_matrix = Identity(4)

\* C7: with model, view, projection and viewport all the identity,
\* transformed_position equals the input position; position, normal,
\* tex_coords and color are always the input's.
C7_IdentityTransform ==
    Transformed =>
        /\ vout.position = vertex.position
        /\ vout.normal = vertex.normal
        /\ vout.tex_coords = vertex.tex_coords
        /\ vout.color = vertex.color
        /\ AllIdentity => vout.transformed_position = vertex.position

\* a vertex off the origin has been transformed under the identity bundle
C7_Witness ==
    /\ Transformed
    /\ AllIdentity
    /\ vertex.position = <<R(1), R(-1), R(1)>>
    /\ vout.transformed_position = <<R(1), R(-1), R(1)>>

(* ------------------------------ the frame ------------------------------ *)
\* Workers transform the vertices and shade the fragments of one frame, each
\* taking an item nobody has taken and writing its result to the item's slot;
\* all of them read the one bundle.

Workers == 1..NumWorkers

FrameSlots == {1, 2}

Items == [kind : {"fragment", "vertex"}, index : FrameSlots]

NoItem == [kind |-> "none", index |-> 0]

FrameSelectors == {1, U8Max}

FramePool ==
    { f \in FragmentPool : /\ f.depth = 0
                           /\ f.intensity = 1000
                           /\ f.vertex_position.y \in {0, 500} }

FrameVertices ==
    << [position             |-> <<R(1), R(0), R(-1)>>,
        normal               |-> <<R(0), R(0), R(1)>>,
        tex_coords           |-> <<R(0), R(1)>>,
        color                |-> ColorNew(255, 140, 0),
        transformed_position |-> <<R(0), R(0), R(0)>>,
        transformed_normal   |-> <<R(0), R(0), R(0)>>],
       [position             |-> <<R(-1), R(1), R(1)>>,
        normal               |-> <<R(1), R(2), R(2)>>,
        tex_coords           |-> <<R(0), R(1)>>,
        color                |-> ColorNew(255, 140, 0),
        transformed_position |-> <<R(0), R(0), R(0)>>,
        transformed_normal   |-> <<R(0), R(0), R(0)>>] >>

InitFrame ==
    /\ \E model \in { m \in ModelMatrices : TryInverse(mat4_to_mat3(m)).some },
          time \in 0..MaxTime :
           uniforms = Bundle(model, Identity(4), Identity(4), Identity(4),
                             time, 7)
    /\ current_shader \in FrameSelectors
    /\ fragments \in [FrameSlots -> FramePool]
    /\ vertices = FrameVertices
    /\ colors = [i \in FrameSlots |-> NoColor]
    /\ transformed = vertices
    /\ holding = [w \in Workers |-> NoItem]
    /\ finished = {}
    /\ snapshot = [uniforms |-> uniforms, fragments |-> fragments,
                   vertices |-> vertices]
    /\ fragment = fragments[1]
    /\ out = NoColor
    /\ pc = "frame"
    /\ stdrng = -1
    /\ outs = <<>>
    /\ vertex = vertices[1]
    /\ vout = vertices[1]

\* worker w takes an item that is neither finished nor taken
Take(w) ==
    /\ holding[w] = NoItem
    /\ \E item \in Items :
           /\ item \notin finished
           /\ \A v \in Workers : holding[v] # item
           /\ holding' = [holding EXCEPT ![w] = item]
    /\ UNCHANGED <<uniforms, current_shader, fragment, out, pc, shadeVars,
                   vertexVars, fragments, vertices, colors, transformed,
                   finished, snapshot>>

\* worker w calls fragment_shader on the fragment it holds
ShadeHeld(w) ==
    /\ holding[w].kind = "fragment"
    /\ LET i == holding[w].index
       IN  /\ colors' = [colors EXCEPT
                            ![i] = fragment_shader(fragments[i], uniforms,
                                                   current_shader)]
           /\ fragments' = [fragments EXCEPT ![i] = FragmentAfterCall(@)]
    /\ uniforms' = UniformsAfterCall(uniforms)
    /\ finished' = finished \cup {holding[w]}
    /\ holding' = [holding EXCEPT ![w] = NoItem]
    /\ UNCHANGED <<current_shader, fragment, out, pc, shadeVars, vertexVars,
                   vertices, transformed, snapshot>>

\* worker w calls vertex_shader on the vertex it holds
TransformHeld(w) ==
    /\ holding[w].kind = "vertex"
    /\ LET i == holding[w].index
       IN  transformed' = [transformed EXCEPT
                               ![i] = vertex_shader(vertices[i], uniforms)]
    /\ uniforms' = UniformsAfterCall(uniforms)
    /\ finished' = finished \cup {holding[w]}
    /\ holding' = [holding EXCEPT ![w] = NoItem]
    /\ UNCHANGED <<current_shader, fragment, out, pc, shadeVars, vertexVars,
                   fragments, vertices, colors, snapshot>>

NextFrame == \E w \in Workers : Take(w) \/ ShadeHeld(w) \/ TransformHeld(w)

SpecFrame == InitFrame /\ [][NextFrame]_vars

\* C8: whatever the interleaving of the workers, every finished vertex and
\* fragment has the result it gets when processed alone on the frame as
\* submitted, and no call changes the shared bundle or the input fragments
\* and vertices.
C8_NoOrderingDependency ==
    /\ uniforms = snapshot.uniforms
    /\ fragments = snapshot.fragments
    /\ vertices = snapshot.vertices
    /\ \A i \in FrameSlots :
           /\ colors[i] =
                  IF [kind |-> "fragment", index |-> i] \in finished
                  THEN fragment_shader(snapshot.fragments[i], snapshot.uniforms,
                                       current_shader)
                  ELSE NoColor
           /\ transformed[i] =
                  IF [kind |-> "vertex", index |-> i] \in finished
                  THEN vertex_shader(snapshot.vertices[i], snapshot.uniforms)
                  ELSE snapshot.vertices[i]

\* two workers are in the middle of a fragment and a vertex while the second
\* fragment and the second vertex are already finished
C8_Witness ==
    /\ holding[1] = [kind |-> "fragment", index |-> 1]
    /\ holding[2] = [kind |-> "vertex", index |-> 1]
    /\ finished = { [kind |-> "fragment", index |-> 2],
                    [kind |-> "vertex", index |-> 2] }
    /\ colors[2] # NoColor
    /\ transformed[2] # vertices[2]
    /\ uniforms.time > 0

====
